---- MODULE Spec2Model ----
(***************************************************************************)
(* A model of convertTextToWhatsapp (docs/script.js): the Markdown to      *)
(* WhatsApp converter. A text is a sequence of one-character strings; the  *)
(* regular expressions of the source are operators that compute what the   *)
(* JavaScript regular expression engine computes (leftmost match, greedy   *)
(* and lazy quantifiers, back-references, global non-overlapping           *)
(* replacement).                                                           *)
(***************************************************************************)
EXTENDS Integers, Sequences, FiniteSets, TLC

(***************************************************************************)
(* Characters.                                                             *)
(***************************************************************************)

\* The characters that '.' does not match and that \s and trim() do match,
\* other than "\n" (which split('\n') removes from every line): "\r" stands
\* for \r, U+2028 and U+2029, which this code treats alike.
LineTerminator == {"\r", "\n"}

\* \s, trim() and trimEnd(): white space and line terminators.
WhiteSpace == {" ", "\t"} \cup LineTerminator

IsSpace(c) == c \in WhiteSpace

\* '.' without the s flag.
IsDot(c) == c \notin LineTerminator

\* \d
Digit == {"0", "1", "2", "3", "4", "5", "6", "7", "8", "9"}

\* The backtick, which a string of this language cannot hold.
Backtick == "<backtick>"

\* The class [\\`*_{}[\]()#+.!|~>-] of the escape pattern.
EscapablePunctuation ==
    {"\\", Backtick, "*", "_", "{", "}", "[", "]", "(", ")", "#", "+", ".", "!",
     "|", "~", ">", "-"}

\* U+2500, the box-drawing character of the horizontal rule.
BoxChar == "<U+2500>"

(***************************************************************************)
(* Constants of the program.                                               *)
(***************************************************************************)

HEADER_EMOJIS == [level \in 1..6 |-> <<>>]

PLACEHOLDERS_LIST_ITEM ==
    <<"W","5","G","L","8","r","M","k","q","L","b","a","Y","2","5","X">>

PLACEHOLDERS_BOLD_ITALIC_OPEN ==
    <<"x","y","g","n","a","Y","9","E","s","5","J","3","g","z","y","g">>

PLACEHOLDERS_BOLD_ITALIC_CLOSE ==
    <<"U","5","Y","y","a","X","p","R","P","m","4","N","t","6","a","z">>

PLACEHOLDERS_BOLD ==
    <<"g","q","R","8","z","6","5","4","Q","3","8","8","K","A","g","9">>

(***************************************************************************)
(* String helpers.                                                         *)
(***************************************************************************)

Min(S) == CHOOSE x \in S : \A y \in S : x <= y

Max(S) == CHOOSE x \in S : \A y \in S : x >= y

\* s from index i to its end.
From(s, i) == SubSeq(s, i, Len(s))

\* The literal d occurs in s at index i.
IsAt(s, i, d) ==
    /\ i >= 1
    /\ i + Len(d) - 1 <= Len(s)
    /\ \A k \in 1..Len(d) : s[i + k - 1] = d[k]

Contains(s, d) == \E i \in 1..Len(s) : IsAt(s, i, d)

\* String.prototype.startsWith
StartsWith(s, d) == IsAt(s, 1, d)

\* The length of the longest run of characters of the class S that starts at
\* index i of s: what a greedy S* matches there.
RunLen(s, i, S) ==
    LET stops == {k \in i..Len(s) : s[k] \notin S}
    IN  IF stops = {} THEN Len(s) - i + 1 ELSE Min(stops) - i

\* The same for '.': the longest run of characters that are no line terminator.
DotRunLen(s, i) ==
    LET stops == {k \in i..Len(s) : ~IsDot(s[k])}
    IN  IF stops = {} THEN Len(s) - i + 1 ELSE Min(stops) - i

\* String.prototype.trimEnd
TrimEnd(s) ==
    LET keep == {k \in 1..Len(s) : ~IsSpace(s[k])}
    IN  IF keep = {} THEN <<>> ELSE SubSeq(s, 1, Max(keep))

\* String.prototype.trimStart
TrimStart(s) == From(s, RunLen(s, 1, WhiteSpace) + 1)

\* String.prototype.trim
Trim(s) == TrimStart(TrimEnd(s))

\* String.prototype.split('\n')
RECURSIVE Split(_)
Split(text) ==
    LET nl == {k \in 1..Len(text) : text[k] = "\n"}
    IN  IF nl = {} THEN <<text>>
        ELSE <<SubSeq(text, 1, Min(nl) - 1)>> \o Split(From(text, Min(nl) + 1))

\* Array.prototype.join('\n')
RECURSIVE Join(_)
Join(ls) ==
    IF Len(ls) = 0 THEN <<>>
    ELSE IF Len(ls) = 1 THEN ls[1]
    ELSE ls[1] \o <<"\n">> \o Join(Tail(ls))

\* replace(new RegExp(d, 'g'), r) for a pattern d without special characters:
\* every non-overlapping occurrence of d, scanning from index i, becomes r.
RECURSIVE ReplaceLiteralFrom(_, _, _, _)
ReplaceLiteralFrom(s, d, r, i) ==
    IF i > Len(s) THEN <<>>
    ELSE IF IsAt(s, i, d) THEN r \o ReplaceLiteralFrom(s, d, r, i + Len(d))
    ELSE <<s[i]>> \o ReplaceLiteralFrom(s, d, r, i + 1)

ReplaceLiteral(s, d, r) == ReplaceLiteralFrom(s, d, r, 1)

(***************************************************************************)
(* The steps of the line callback (script.js, 60-130), in source order.    *)
(***************************************************************************)

\* 1.2.1: trimmed.match(/^>\s?(.*)$/) and the line it gives. \s? is greedy
\* and (.*) must reach the end of the line without crossing a line
\* terminator; giving \s? back never helps, as (.*) would then have to match
\* the same characters and one more.
QuoteStep(processedLine) ==
    LET trimmed == Trim(processedLine)
        start   == IF Len(trimmed) >= 2 /\ IsSpace(trimmed[2]) THEN 3 ELSE 2
        group1  == From(trimmed, start)
        matched == /\ Len(trimmed) >= 1
                   /\ trimmed[1] = ">"
                   /\ \A k \in 1..Len(group1) : IsDot(group1[k])
    IN  IF ~matched THEN processedLine
        ELSE IF Len(Trim(group1)) > 0 THEN <<">", " ">> \o Trim(group1)
        ELSE <<>>

\* 1.3.1: replace(/\\([\\`*_{}[\]()#+.!|~>-])/g, '$1')
RECURSIVE EscapeFrom(_, _)
EscapeFrom(s, i) ==
    IF i > Len(s) THEN <<>>
    ELSE IF s[i] = "\\" /\ i < Len(s) /\ s[i + 1] \in EscapablePunctuation
         THEN <<s[i + 1]>> \o EscapeFrom(s, i + 2)
    ELSE <<s[i]>> \o EscapeFrom(s, i + 1)

EscapeStep(s) == EscapeFrom(s, 1)

\* 1.3.2: replace(/^(\s*)(-{3,}|_{3,}|\*{3,})\s*$/, '$1───')
HorizontalRuleStep(s) ==
    LET w == RunLen(s, 1, WhiteSpace)
        n == IF w < Len(s) /\ s[w + 1] \in {"-", "_", "*"}
             THEN RunLen(s, w + 1, {s[w + 1]}) ELSE 0
        t == RunLen(s, w + n + 1, WhiteSpace)
    IN  IF n >= 3 /\ w + n + t = Len(s)
        THEN SubSeq(s, 1, w) \o <<BoxChar, BoxChar, BoxChar>>
        ELSE s

\* The index of the ")" that ends a match of /\[([^\]]+)]\(([^)]+)\)/ starting
\* at index i, or 0. Both classes are greedy and stop at the first "]" and
\* the first ")", which the pattern then requires: no other split matches.
LinkClose(s, i) ==
    LET js == {j \in (i + 1)..Len(s) : s[j] = "]"}
        j  == IF js = {} THEN 0 ELSE Min(js)
        ks == {k \in (j + 2)..Len(s) : s[k] = ")"}
        k  == IF ks = {} THEN 0 ELSE Min(ks)
    IN  IF /\ i <= Len(s) /\ s[i] = "["
           /\ j >= i + 2
           /\ j < Len(s) /\ s[j + 1] = "("
           /\ k >= j + 3
        THEN k ELSE 0

\* The index of the "]" of that match.
LinkMiddle(s, i) == Min({j \in (i + 1)..Len(s) : s[j] = "]"})

\* 1.3.3: replace(/\[([^\]]+)]\(([^)]+)\)/g, '$1 ($2)')
RECURSIVE LinkFrom(_, _)
LinkFrom(s, i) ==
    IF i > Len(s) THEN <<>>
    ELSE IF LinkClose(s, i) # 0
         THEN LET j == LinkMiddle(s, i)
                  k == LinkClose(s, i)
              IN  SubSeq(s, i + 1, j - 1) \o <<" ", "(">>
                    \o SubSeq(s, j + 2, k - 1) \o <<")">> \o LinkFrom(s, k + 1)
    ELSE <<s[i]>> \o LinkFrom(s, i + 1)

LinkStep(s) == LinkFrom(s, 1)

\* For a pattern (d)(.+?)\1 whose opening delimiter d is at index i: the index
\* of the closing delimiter, or 0. The lazy (.+?) takes one character at
\* least, no line terminator, and stops at the first place where d follows.
ClosePos(s, i, d) ==
    LET L  == Len(d)
        es == {e \in (i + L + 1)..(Len(s) - L + 1) :
                  /\ IsAt(s, e, d)
                  /\ \A k \in (i + L)..(e - 1) : IsDot(s[k])}
    IN  IF IsAt(s, i, d) /\ es # {} THEN Min(es) ELSE 0

\* replace(/(d1|d2|...)(.+?)\1/g, open + '$2' + close), scanning from index i:
\* delims holds the alternatives d1, d2, ... in the order of the pattern.
RECURSIVE DelimitedFrom(_, _, _, _, _)
DelimitedFrom(s, i, delims, open, close) ==
    IF i > Len(s) THEN <<>>
    ELSE LET ds == {n \in 1..Len(delims) : ClosePos(s, i, delims[n]) # 0}
         IN  IF ds = {} THEN <<s[i]>> \o DelimitedFrom(s, i + 1, delims, open, close)
             ELSE LET d == delims[Min(ds)]
                      e == ClosePos(s, i, d)
                  IN  open \o SubSeq(s, i + Len(d), e - 1) \o close
                        \o DelimitedFrom(s, e + Len(d), delims, open, close)

\* 1.3.4: replace(/~~(.+?)~~/g, '~$1~')
StrikethroughStep(s) == DelimitedFrom(s, 1, <<(<<"~", "~">>)>>, <<"~">>, <<"~">>)

\* The replace(/[*_]/g, '') of the header content.
StripEmphasis(s) == SelectSeq(s, LAMBDA c : c \notin {"*", "_"})

\* processedLine.match(/^(#{1,6})\s+(.+)/): the number of "#" (group 1), or 0
\* when the line is no header. After at most six "#" comes white space, so a
\* run of seven or more never matches.
HeaderLevel(s) ==
    LET h == RunLen(s, 1, {"#"})
        m == RunLen(s, h + 1, WhiteSpace)
    IN  IF /\ h \in 1..6
           /\ \E k \in 1..m : h + k < Len(s) /\ IsDot(s[h + k + 1])
        THEN h ELSE 0

\* Group 2 of that match: \s+ is greedy and gives back white space only as
\* far as (.+) needs to find one character; (.+) then runs to the end of the
\* line or to the first line terminator.
HeaderContent(s) ==
    LET h == HeaderLevel(s)
        m == RunLen(s, h + 1, WhiteSpace)
        k == Max({n \in 1..m : h + n < Len(s) /\ IsDot(s[h + n + 1])})
    IN  SubSeq(s, h + k + 1, h + k + DotRunLen(s, h + k + 1))

\* The header step without line 105: the "*" and "_" of the content stay.
HeaderStepKeepsMarkers(s) ==
    IF HeaderLevel(s) = 0 THEN s
    ELSE PLACEHOLDERS_BOLD \o Trim(HeaderContent(s)) \o PLACEHOLDERS_BOLD

\* 1.3.4 (headers): a header line becomes BOLD + emoji + content + BOLD.
HeaderStep(s) ==
    LET level   == HeaderLevel(s)
        content == StripEmphasis(Trim(HeaderContent(s)))
        found   == IF Len(HEADER_EMOJIS[level]) > 0
                   THEN HEADER_EMOJIS[level] ELSE HEADER_EMOJIS[6]
        emoji   == IF Len(found) > 0 THEN found \o <<" ">> ELSE found
    IN  IF level = 0 THEN s
        ELSE PLACEHOLDERS_BOLD \o emoji \o content \o PLACEHOLDERS_BOLD

\* 1.3.5: replace(/^(\s*\d+\.)\s+/g, '$1 ')
OrderedListStep(s) ==
    LET w == RunLen(s, 1, WhiteSpace)
        n == RunLen(s, w + 1, Digit)
        m == RunLen(s, w + n + 2, WhiteSpace)
    IN  IF n >= 1 /\ w + n < Len(s) /\ s[w + n + 1] = "." /\ m >= 1
        THEN SubSeq(s, 1, w + n + 1) \o <<" ">> \o From(s, w + n + m + 2)
        ELSE s

\* The list step with the asterisk itself in place of the placeholder.
UnorderedListStepAsterisk(s) ==
    LET w == RunLen(s, 1, WhiteSpace)
        m == RunLen(s, w + 2, WhiteSpace)
    IN  IF w < Len(s) /\ s[w + 1] \in {"*", "+", "-"} /\ m >= 1
        THEN SubSeq(s, 1, w) \o <<"*", " ">> \o From(s, w + m + 2)
        ELSE s

\* 1.3.6: replace(/^(\s*)[*+-]\s+/g, '$1' + LIST_ITEM + ' ')
UnorderedListStep(s) ==
    LET w == RunLen(s, 1, WhiteSpace)
        m == RunLen(s, w + 2, WhiteSpace)
    IN  IF w < Len(s) /\ s[w + 1] \in {"*", "+", "-"} /\ m >= 1
        THEN SubSeq(s, 1, w) \o PLACEHOLDERS_LIST_ITEM \o <<" ">>
               \o From(s, w + m + 2)
        ELSE s

\* 1.3.7: replace(/(\*\*\*|___)(.+?)\1/g, BOLD_ITALIC_OPEN + '$2' + BOLD_ITALIC_CLOSE)
TripleStep(s) ==
    DelimitedFrom(s, 1, <<(<<"*", "*", "*">>), (<<"_", "_", "_">>)>>,
                  PLACEHOLDERS_BOLD_ITALIC_OPEN, PLACEHOLDERS_BOLD_ITALIC_CLOSE)

\* 1.3.8: replace(/(\*\*|__)(.+?)\1/g, BOLD + '$2' + BOLD)
BoldStep(s) ==
    DelimitedFrom(s, 1, <<(<<"*", "*">>), (<<"_", "_">>)>>,
                  PLACEHOLDERS_BOLD, PLACEHOLDERS_BOLD)

\* The italic step with '$1$2$1' for its replacement: the marker stays.
ItalicStepKeepsMarker(s) == s

\* 1.3.9: replace(/([*_])(.+?)\1/g, '_$2_')
ItalicStep(s) ==
    DelimitedFrom(s, 1, <<(<<"*">>), (<<"_">>)>>, <<"_">>, <<"_">>)

\* The steps with the italic step before the triple and the bold step.
FormatLineItalicFirst(processedLine) ==
    BoldStep(TripleStep(ItalicStep(UnorderedListStep(OrderedListStep(
        HeaderStep(StrikethroughStep(LinkStep(HorizontalRuleStep(
            EscapeStep(QuoteStep(processedLine)))))))))))

\* Lines 74-129: what the callback does to a line that is no fence and not
\* inside a code block.
FormatLine(processedLine) ==
    ItalicStep(BoldStep(TripleStep(UnorderedListStep(OrderedListStep(
        HeaderStep(StrikethroughStep(LinkStep(HorizontalRuleStep(
            EscapeStep(QuoteStep(processedLine)))))))))))

\* The line as the steps up to 1.3.4 (strikethrough), up to 1.3.5 (ordered
\* lists) and up to 1.3.6 (list items) leave it.
BeforeHeader(processedLine) ==
    StrikethroughStep(LinkStep(HorizontalRuleStep(
        EscapeStep(QuoteStep(processedLine)))))

BeforeList(processedLine) == OrderedListStep(HeaderStep(BeforeHeader(processedLine)))

BeforeTriple(processedLine) == UnorderedListStep(BeforeList(processedLine))

\* Line 65: processedLine.trim().startsWith('```')
IsFence(processedLine) ==
    StartsWith(Trim(processedLine), <<Backtick, Backtick, Backtick>>)

\* Lines 60-130: the callback of map on one line, with inCodeBlock as the
\* callback finds it: the line it returns, inCodeBlock as it leaves it, and
\* whether the line went through the formatting steps.
Callback(line, inCode) ==
    LET processedLine == TrimEnd(line)
    IN  IF IsFence(processedLine)
        THEN [line |-> processedLine, inCodeBlock |-> ~inCode, formatted |-> FALSE]
        ELSE IF inCode
        THEN [line |-> processedLine, inCodeBlock |-> inCode, formatted |-> FALSE]
        ELSE [line |-> FormatLine(processedLine), inCodeBlock |-> inCode,
              formatted |-> TRUE]

\* Phase 2 (lines 137-141): the four global replacements, in source order.
RenderText(tokenizedText) ==
    ReplaceLiteral(
        ReplaceLiteral(
            ReplaceLiteral(
                ReplaceLiteral(tokenizedText, PLACEHOLDERS_LIST_ITEM, <<"*">>),
                PLACEHOLDERS_BOLD_ITALIC_OPEN, <<"*", "_">>),
            PLACEHOLDERS_BOLD_ITALIC_CLOSE, <<"_", "*">>),
        PLACEHOLDERS_BOLD, <<"*">>)

(***************************************************************************)
(* The state of one call of convertTextToWhatsapp after another.           *)
(***************************************************************************)

VARIABLES
    pc,              \* "idle": no call runs; "map": a call is in its map over
                     \* the lines; "done": the call is at its return
    markdownText,    \* the argument of the running call
    index,           \* the number of lines the callback has handled
    inCodeBlock,     \* the let of line 56
    tokenizedLines,  \* the callback's results so far
    finalOutput,     \* the const of line 137
    formatted,       \* history: per line handled, did it go through the
                     \* formatting steps of lines 74-129
    passes,          \* history: 1 for a call on a text of the user, n + 1 for
                     \* a call on the result of a call with n
    leftOpen         \* history: an earlier call returned with inCodeBlock true

vars == <<pc, markdownText, index, inCodeBlock, tokenizedLines, finalOutput,
          formatted, passes, leftOpen>>

\* The page is loaded and no conversion has run.
Init ==
    /\ pc = "idle"
    /\ markdownText = <<>>
    /\ index = 0
    /\ inCodeBlock = FALSE
    /\ tokenizedLines = <<>>
    /\ finalOutput = <<>>
    /\ formatted = <<>>
    /\ passes = 0
    /\ leftOpen = FALSE

\* inCodeBlock as a variable of the script, set once when the page loads
\* and not by the call.
EnterKeepsCodeBlock(text) ==
    /\ pc' = "map"
    /\ markdownText' = text
    /\ index' = 0
    /\ tokenizedLines' = <<>>
    /\ finalOutput' = <<>>
    /\ formatted' = <<>>
    /\ UNCHANGED <<inCodeBlock, leftOpen>>

\* Lines 52-60: convertTextToWhatsapp is entered with the text, declares
\* inCodeBlock and splits the text.
Enter(text) ==
    /\ pc' = "map"
    /\ markdownText' = text
    /\ index' = 0
    /\ inCodeBlock' = FALSE
    /\ tokenizedLines' = <<>>
    /\ finalOutput' = <<>>
    /\ formatted' = <<>>
    /\ UNCHANGED leftOpen

\* Line 164: handleConversion calls the converter on a text of the user.
Call(text) ==
    /\ pc = "idle"
    /\ Enter(text)
    /\ passes' = 1

\* Lines 60-130: the callback of map, on the next line of the text.
MapLine ==
    /\ pc = "map"
    /\ index < Len(Split(markdownText))
    /\ LET r == Callback(Split(markdownText)[index + 1], inCodeBlock)
       IN  /\ inCodeBlock' = r.inCodeBlock
           /\ tokenizedLines' = Append(tokenizedLines, r.line)
           /\ formatted' = Append(formatted, r.formatted)
    /\ index' = index + 1
    /\ UNCHANGED <<pc, markdownText, finalOutput, passes, leftOpen>>

\* Lines 132-141: the map is over; the lines are joined and rendered.
Render ==
    /\ pc = "map"
    /\ index = Len(Split(markdownText))
    /\ finalOutput' = RenderText(Join(tokenizedLines))
    /\ pc' = "done"
    /\ UNCHANGED <<markdownText, index, inCodeBlock, tokenizedLines, formatted,
                   passes, leftOpen>>

\* Line 143: the call returns and its locals are gone.
Return ==
    /\ pc = "done"
    /\ pc' = "idle"
    /\ markdownText' = <<>>
    /\ index' = 0
    /\ tokenizedLines' = <<>>
    /\ finalOutput' = <<>>
    /\ formatted' = <<>>
    /\ passes' = 0
    /\ leftOpen' = (leftOpen \/ inCodeBlock)
    /\ UNCHANGED inCodeBlock

\* The number of times a text is converted in a row.
MaxPasses == 2

\* The text a call returned is given to the converter again.
Reconvert ==
    /\ pc = "done"
    /\ passes < MaxPasses
    /\ Enter(finalOutput)
    /\ passes' = passes + 1

(***************************************************************************)
(* Texts with fenced code blocks.                                          *)
(***************************************************************************)

MaxLines == 4

\* A fence, a fence with white space before and text after it, a line with
\* Markdown markers, a line that ends with white space.
CodeLines ==
    { <<Backtick, Backtick, Backtick>>,
      <<" ", Backtick, Backtick, Backtick, "a">>,
      <<"*", "*", "b", "*", "*">>,
      <<"x", " ">> }

\* The texts of one to MaxLines of these lines.
CodeTexts ==
    {Join(ls) : ls \in UNION {[1..n -> CodeLines] : n \in 1..MaxLines}}

CallCode == \E text \in CodeTexts : Call(text)

NextCode == CallCode \/ MapLine \/ Render \/ Return

SpecCode == Init /\ [][NextCode]_vars

\* The line's trimmed content starts with three backticks.
IsFenceLine(line) == StartsWith(Trim(line), <<Backtick, Backtick, Backtick>>)

\* The number of fence lines among the first k lines.
FenceCount(ls, k) == Cardinality({j \in 1..k : IsFenceLine(ls[j])})

\* Line k lies strictly between an opening fence and its closing fence.
InsideClosedBlock(ls, k) ==
    /\ ~IsFenceLine(ls[k])
    /\ FenceCount(ls, k - 1) % 2 = 1
    /\ \E j \in (k + 1)..Len(ls) : IsFenceLine(ls[j])

\* C1: every line strictly between an opening fence line and its closing
\* fence line is in the output at the same line position, identical to the
\* input line, whatever characters it holds.
C1_CodeBlockVerbatim ==
    pc = "done" =>
        LET input  == Split(markdownText)
            output == Split(finalOutput)
        IN  /\ Len(output) = Len(input)
            /\ \A k \in 1..Len(input) :
                   InsideClosedBlock(input, k) => output[k] = input[k]

MaxLen == 5

\* "a" stands for every character that no pattern of the converter names.
InlineChars == {"\\", "*", "_", "a"}

InlineTexts == UNION {[1..n -> InlineChars] : n \in 1..MaxLen}

CallInline == \E text \in InlineTexts : Call(text)

NextInline == CallInline \/ MapLine \/ Render \/ Return

SpecInline == Init /\ [][NextInline]_vars

\* The text is made of "a" alone and is not empty.
IsPlain(x) == Len(x) >= 1 /\ \A k \in 1..Len(x) : x[k] = "a"

\* The marker m behind a backslash, a plain text x, and the same again.
EscapedPair(m, x) == <<"\\", m>> \o x \o <<"\\", m>>

\* C2: a backslash-escaped marker is output as the literal marker and is not
\* taken for formatting: a line \*x\* with x plain converts to *x*, and
\* likewise with escaped underscores.
C2_EscapedMarkersStayLiteral ==
    pc = "done" =>
        \A m \in {"*", "_"} :
            \A n \in 1..Len(markdownText) :
                LET x == [k \in 1..n |-> "a"]
                IN  markdownText = EscapedPair(m, x) => finalOutput = <<m>> \o x \o <<m>>

\* The runs that open an emphasis.
OpeningRuns ==
    { <<"*", "*", "*">>, <<"*", "*">>, <<"_", "_">>, <<"*">>, <<"_">> }

\* C3: on a line whose emphasis markers are unmatched (an opening run of
\* markers with plain text behind it and no closing run) the markers are in
\* the output unchanged.
C3_UnmatchedMarkersUnchanged ==
    pc = "done" =>
        \A run \in OpeningRuns :
            (/\ StartsWith(markdownText, run)
             /\ IsPlain(From(markdownText, Len(run) + 1)))
                => finalOutput = markdownText

(***************************************************************************)
(* One-line texts of emphasized plain texts.                               *)
(***************************************************************************)

MaxSegments == 2

\* Plain texts without white space at their ends: one word, two words.
PlainTexts == { <<"a">>, <<"a", " ", "b">> }

\* The markers of Markdown: bold, italic, bold italic.
EmphasisMarkers ==
    { <<"*", "*">>, <<"_", "_">>, <<"*">>, <<"_">>,
      <<"*", "*", "*">>, <<"_", "_", "_">> }

\* An emphasized text: the marker m around the plain text x.
Segments == [m : EmphasisMarkers, x : PlainTexts]

\* One to MaxSegments emphasized texts, one space between two of them.
RECURSIVE MarkdownOf(_)
MarkdownOf(segs) ==
    IF Len(segs) = 0 THEN <<>>
    ELSE segs[1].m \o segs[1].x \o segs[1].m
           \o (IF Len(segs) = 1 THEN <<>> ELSE <<" ">> \o MarkdownOf(Tail(segs)))

SegmentLists == UNION {[1..n -> Segments] : n \in 1..MaxSegments}

EmphasisTexts == {MarkdownOf(segs) : segs \in SegmentLists}

CallEmphasis == \E text \in EmphasisTexts : Call(text)

NextEmphasis == CallEmphasis \/ MapLine \/ Render \/ Return

SpecEmphasis == Init /\ [][NextEmphasis]_vars

\* What WhatsApp has for a plain text x that Markdown emphasizes with a
\* marker of n characters.
WhatsappForm(n, x) ==
    IF n = 2 THEN <<"*">> \o x \o <<"*">>
    ELSE IF n = 1 THEN <<"_">> \o x \o <<"_">>
    ELSE <<"*", "_">> \o x \o <<"_", "*">>

\* The WhatsApp text for a line of emphasized plain texts, read from the
\* left: a run of one marker character, the plain text up to the next marker
\* character, the closing run, and after a space the next one.
RECURSIVE WhatsappOf(_)
WhatsappOf(text) ==
    IF Len(text) = 0 THEN <<>>
    ELSE LET n    == RunLen(text, 1, {text[1]})
             x    == SubSeq(text, n + 1, n + RunLen(text, n + 1, {"a", "b", " "}))
             rest == From(text, 2 * n + Len(x) + 1)
         IN  WhatsappForm(n, x)
               \o (IF Len(rest) = 0 THEN <<>> ELSE <<" ">> \o WhatsappOf(Tail(rest)))

NextTwice == CallEmphasis \/ MapLine \/ Render \/ Return \/ Reconvert

SpecTwice == Init /\ [][NextTwice]_vars

\* C8: the converter is not idempotent. Every text it returns for an
\* emphasized text that holds bold ("*" in the WhatsApp dialect) is altered
\* when it is converted again.
C8_NotIdempotent ==
    (pc = "done" /\ passes = 2 /\ Contains(markdownText, <<"*">>))
        => finalOutput # markdownText

\* The result *a* of **a** was converted again, and became _a_.
C8_Witness ==
    /\ pc = "done"
    /\ passes = 2
    /\ markdownText = <<"*", "a", "*">>
    /\ finalOutput = <<"_", "a", "_">>

(***************************************************************************)
(* One-line texts with a link.                                             *)
(***************************************************************************)

MaxPart == 5

\* The texts and the addresses of the links.
LinkParts == UNION {[1..n -> {"a", "_"}] : n \in 1..MaxPart}

LinkLine(text, url) == <<"[">> \o text \o <<"]", "(">> \o url \o <<")">>

LinkTexts == {LinkLine(t, u) : t \in LinkParts, u \in LinkParts}

CallLink == \E text \in LinkTexts : Call(text)

NextLink == CallLink \/ MapLine \/ Render \/ Return

SpecLink == Init /\ [][NextLink]_vars

\* C5: [text](url) is in the final output as text (url), with the text and
\* the url the character runs of the input.
C5_LinkKeepsTextAndUrl ==
    pc = "done" =>
        LET j    == Min({k \in 1..Len(markdownText) : markdownText[k] = "]"})
            text == SubSeq(markdownText, 2, j - 1)
            url  == SubSeq(markdownText, j + 2, Len(markdownText) - 1)
        IN  finalOutput = text \o <<" ", "(">> \o url \o <<")">>

(***************************************************************************)
(* Header lines.                                                           *)
(***************************************************************************)

MaxContent == 3

\* One to six "#".
HeaderMarks == {[k \in 1..n |-> "#"] : n \in 1..6}

\* The content of a header: it begins with no white space.
HeaderContents ==
    {c \in UNION {[1..n -> {"a", "*", "_", " ", "\\"}] : n \in 1..MaxContent} :
        c[1] # " "}

HeaderTexts ==
    {h \o w \o c : h \in HeaderMarks, w \in {<<" ">>, <<"\t", " ">>},
                   c \in HeaderContents}

CallHeader == \E text \in HeaderTexts : Call(text)

NextHeader == CallHeader \/ MapLine \/ Render \/ Return

SpecHeader == Init /\ [][NextHeader]_vars

\* The content of a header line: what follows the "#" and the white space
\* behind them, trimmed.
ContentOf(text) ==
    LET h == RunLen(text, 1, {"#"})
        m == RunLen(text, h + 1, WhiteSpace)
    IN  Trim(From(text, h + m + 1))

\* The text without its "*" and "_".
RECURSIVE WithoutMarkers(_)
WithoutMarkers(x) ==
    IF Len(x) = 0 THEN <<>>
    ELSE (IF Head(x) \in {"*", "_"} THEN <<>> ELSE <<Head(x)>>)
           \o WithoutMarkers(Tail(x))

MaxItem == 3

\* The text of an item: it begins with no white space.
ItemTexts == UNION {[1..n -> {"a", "*", "_"}] : n \in 1..MaxItem}

ListTexts ==
    {w \o <<m>> \o g \o item :
        w \in {<<>>, <<" ">>, <<"\t", " ">>}, m \in {"*", "+", "-"},
        g \in {<<" ">>, <<" ", "\t">>}, item \in ItemTexts}

CallList == \E text \in ListTexts : Call(text)

NextList == CallList \/ MapLine \/ Render \/ Return

SpecList == Init /\ [][NextList]_vars

\* C7: an item line, white space w, a marker "*", "+" or "-", white space
\* and the item text, converts to w, one asterisk, one space and the item
\* text as the emphasis steps and the rendering convert it alone: the list
\* asterisk is no emphasis delimiter, also when the item text holds "*".
C7_ListItem ==
    pc = "done" =>
        LET w    == RunLen(markdownText, 1, WhiteSpace)
            g    == RunLen(markdownText, w + 2, WhiteSpace)
            item == From(markdownText, w + g + 2)
        IN  finalOutput =
                SubSeq(markdownText, 1, w) \o <<"*", " ">>
                  \o RenderText(ItalicStep(BoldStep(TripleStep(item))))

\* The item "a*" behind "-": its asterisk and the list asterisk make no pair.
C7_Witness ==
    /\ pc = "done"
    /\ markdownText = <<" ", "-", " ", "a", "*">>
    /\ finalOutput = <<" ", "*", " ", "a", "*">>

(***************************************************************************)
(* One-line texts that hold pieces of the placeholders.                    *)
(***************************************************************************)

MaxPieces == 4

\* BOLD_ITALIC_OPEN without its last character, the two halves of
\* LIST_ITEM, and markers of Markdown.
Pieces ==
    { SubSeq(PLACEHOLDERS_BOLD_ITALIC_OPEN, 1, 15),
      SubSeq(PLACEHOLDERS_LIST_ITEM, 1, 8),
      SubSeq(PLACEHOLDERS_LIST_ITEM, 9, 16),
      <<"*", "*">>, <<"*">>, <<"#", " ">>, <<"a">> }

RECURSIVE Concat(_)
Concat(ps) == IF Len(ps) = 0 THEN <<>> ELSE Head(ps) \o Concat(Tail(ps))

HoldsPlaceholder(text) ==
    \/ Contains(text, PLACEHOLDERS_LIST_ITEM)
    \/ Contains(text, PLACEHOLDERS_BOLD_ITALIC_OPEN)
    \/ Contains(text, PLACEHOLDERS_BOLD_ITALIC_CLOSE)
    \/ Contains(text, PLACEHOLDERS_BOLD)

\* The texts of one to MaxPieces pieces in which no placeholder occurs.
PieceTexts ==
    {text \in {Concat(ps) : ps \in UNION {[1..n -> Pieces] : n \in 1..MaxPieces}} :
        ~HoldsPlaceholder(text)}

CallPieces == \E text \in PieceTexts : Call(text)

NextPieces == CallPieces \/ MapLine \/ Render \/ Return

SpecPieces == Init /\ [][NextPieces]_vars

\* The four replacements of the rendering, in source order.
Replacements ==
    << <<PLACEHOLDERS_LIST_ITEM, <<"*">> >>,
       <<PLACEHOLDERS_BOLD_ITALIC_OPEN, <<"*", "_">> >>,
       <<PLACEHOLDERS_BOLD_ITALIC_CLOSE, <<"_", "*">> >>,
       <<PLACEHOLDERS_BOLD, <<"*">> >> >>

\* The orders of the four replacements.
Orders == {p \in [1..4 -> 1..4] : \A i, j \in 1..4 : p[i] = p[j] => i = j}

\* The text with the replacements p[n], ..., p[4] made in this order.
RECURSIVE RenderInOrder(_, _, _)
RenderInOrder(text, p, n) ==
    IF n > 4 THEN text
    ELSE RenderInOrder(
             ReplaceLiteral(text, Replacements[p[n]][1], Replacements[p[n]][2]),
             p, n + 1)

\* C10: for a text in which no placeholder occurs, the four replacements of
\* the rendering give the same output in each of their orders, and a
\* placeholder is in the tokenized text only where its step of the line pass
\* put it: LIST_ITEM only when the list step matched, BOLD_ITALIC_OPEN and
\* BOLD_ITALIC_CLOSE only when the triple step matched.
C10_RenderOrderFree ==
    (pc = "done" /\ ~HoldsPlaceholder(markdownText)) =>
        LET tokenizedText == Join(tokenizedLines)
            line          == TrimEnd(markdownText)
        IN  /\ \A p \in Orders : RenderInOrder(tokenizedText, p, 1) = finalOutput
            /\ Contains(tokenizedText, PLACEHOLDERS_LIST_ITEM)
                   => UnorderedListStep(BeforeList(line)) # BeforeList(line)
            /\ (\/ Contains(tokenizedText, PLACEHOLDERS_BOLD_ITALIC_OPEN)
                \/ Contains(tokenizedText, PLACEHOLDERS_BOLD_ITALIC_CLOSE))
                   => TripleStep(BeforeTriple(line)) # BeforeTriple(line)

====
